---- MODULE Spec2Model ----
(***************************************************************************)
(* Model of the reqwest-based EventSource client (src/src/reqwest.rs):     *)
(* the Client struct, Client::new, Client::next_request and the Iterator   *)
(* implementation Client::next, together with the line parser it calls     *)
(* (event::parse_event_line) and the server it talks to.                   *)
(*                                                                         *)
(* Text is modelled as sequences of one-character strings, so that         *)
(* read_line and the parser work on characters as the code does.           *)
(* Option<T> is modelled as a sequence: None is << >>, Some(v) is <<v>>.   *)
(* Time is counted in milliseconds.                                        *)
(***************************************************************************)
EXTENDS Integers, Sequences, FiniteSets, TLC

\* ------------------------------------------------------------------ bounds

\* The clock stops advancing at MaxTime (milliseconds).
MaxTime == 10000

\* Nested activations of next() explored by the model.
MaxDepth == 3

\* ------------------------------------------------------------- Option<T>

None == << >>

Some(v) == <<v>>

\* ------------------------------------------------------------------- text

NL == "\n"

CR == "\r"

\* Index of the first occurrence of character c in s, 0 when there is none.
FindChar(s, c) ==
    IF \E i \in 1..Len(s) : s[i] = c
    THEN CHOOSE i \in 1..Len(s) : s[i] = c /\ \A j \in 1..(i - 1) : s[j] # c
    ELSE 0

\* s without its first n characters.
Drop(s, n) == SubSeq(s, n + 1, Len(s))

Digits == <<"0", "1", "2", "3", "4", "5", "6", "7", "8", "9">>

IsDigit(c) == \E d \in 1..10 : Digits[d] = c

DigitVal(c) == (CHOOSE d \in 1..10 : Digits[d] = c) - 1

RECURSIVE DecimalValue(_, _)
DecimalValue(s, acc) ==
    IF s = << >> THEN acc
    ELSE DecimalValue(Tail(s), acc * 10 + DigitVal(Head(s)))

\* value.parse::<u64>(): Some(n) for a non-empty run of decimal digits.
ParseU64(s) ==
    IF s # << >> /\ \A i \in 1..Len(s) : IsDigit(s[i])
    THEN Some(DecimalValue(s, 0))
    ELSE None

\* ------------------------------------------------------------ event parser

S_message == <<"m", "e", "s", "s", "a", "g", "e">>

S_data == <<"d", "a", "t", "a">>

S_event == <<"e", "v", "e", "n", "t">>

S_id == <<"i", "d">>

S_retry == <<"r", "e", "t", "r", "y">>

\* Event::new(): no id, default type "message", empty data.
NewEvent == [id |-> None, event_type |-> S_message, data |-> << >>]

\* The line without its terminator ("\n" or "\r\n").
StripTerminator(line) ==
    LET a == IF line # << >> /\ line[Len(line)] = NL
             THEN SubSeq(line, 1, Len(line) - 1) ELSE line
    IN  IF a # << >> /\ a[Len(a)] = CR THEN SubSeq(a, 1, Len(a) - 1) ELSE a

\* Field name of a non-blank, non-comment line: the text before the first ':'.
FieldName(content) ==
    LET p == FindChar(content, ":")
    IN  IF p = 0 THEN content ELSE SubSeq(content, 1, p - 1)

\* Field value: the text after the first ':', less one leading space.
FieldValue(content) ==
    LET p == FindChar(content, ":")
        v == IF p = 0 THEN << >> ELSE Drop(content, p)
    IN  IF v # << >> /\ v[1] = " " THEN Tail(v) ELSE v

\* parse_event_line(line, &mut event): the verdict, the accumulator after the
\* line, and the interval of a SetRetry verdict.
parse_event_line(line, event) ==
    LET content == StripTerminator(line)
        name == FieldName(content)
        value == FieldValue(content)
        next(ev) == [verdict |-> "Next", event |-> ev, retry |-> 0]
    IN  IF content = << >>
        THEN [verdict |-> "Dispatch", event |-> event, retry |-> 0]
        ELSE IF content[1] = ":" THEN next(event)
        ELSE IF name = S_data
        THEN next([event EXCEPT !.data =
                     IF @ = << >> THEN value ELSE @ \o <<NL>> \o value])
        ELSE IF name = S_event THEN next([event EXCEPT !.event_type = value])
        ELSE IF name = S_id THEN next([event EXCEPT !.id = Some(value)])
        ELSE IF name = S_retry /\ ParseU64(value) # None
        THEN [verdict |-> "SetRetry", event |-> event, retry |-> ParseU64(value)[1]]
        ELSE next(event)

\* ------------------------------------------------------------ Result<T, E>

Ok(v) == [ok |-> TRUE, val |-> v]

Err(e) == [ok |-> FALSE, err |-> e]

\* The error kinds of mod errors.
ReqwestError == [kind |-> "Reqwest"]

IoError == [kind |-> "Io"]

HttpError(status) == [kind |-> "Http", status |-> status]

InvalidContentTypeError(mime_type) == [kind |-> "InvalidContentType", mime |-> mime_type]

NoContentTypeError == [kind |-> "NoContentType"]

\* ---------------------------------------------------------------- program

DEFAULT_RETRY == 5000

\* The clock advances in steps of half the default interval.
TickStep == DEFAULT_RETRY \div 2

\* mime::TEXT_EVENT_STREAM as an Accept header value.
TEXT_EVENT_STREAM ==
    <<"t", "e", "x", "t", "/", "e", "v", "e", "n", "t", "-",
      "s", "t", "r", "e", "a", "m">>

\* Headers: a map from header name to value.
EmptyHeaders == [n \in {} |-> << >>]

\* Headers::set / Headers::set_raw: the value of name n is replaced by v.
HeadersSet(h, n, v) ==
    [x \in (DOMAIN h) \cup {n} |-> IF x = n THEN v ELSE h[x]]

\* A buggy variant of RequestHeaders: the caller's default wins on conflict.
RequestHeadersDefaultWins(dh, id) ==
    LET h1 == IF "Accept" \in DOMAIN dh THEN dh
              ELSE HeadersSet(dh, "Accept", TEXT_EVENT_STREAM)
    IN  IF id # None /\ "Last-Event-ID" \notin DOMAIN h1
        THEN HeadersSet(h1, "Last-Event-ID", id[1])
        ELSE h1

\* The headers of an outbound request (next_request, lines 76-80).
RequestHeaders(dh, id) ==
    LET h1 == HeadersSet(dh, "Accept", TEXT_EVENT_STREAM)
    IN  IF id # None THEN HeadersSet(h1, "Last-Event-ID", id[1]) ELSE h1

\* StatusCode::is_success
IsSuccess(status) == 200 <= status /\ status < 300

\* A buggy variant of CheckResponse: the Content-Type is checked first.
CheckResponseTypeFirst(r) ==
    IF r.content_type = None THEN Err(NoContentTypeError)
    ELSE IF <<r.content_type[1].type, r.content_type[1].subtype>> #
            <<"text", "event-stream">>
    THEN Err(InvalidContentTypeError(r.content_type[1]))
    ELSE IF ~IsSuccess(r.status) THEN Err(HttpError(r.status))
    ELSE Ok(r.body)

\* The status and Content-Type checks of next_request (lines 85-100): the
\* error to return, or the body to wrap in a BufReader.
CheckResponse(r) ==
    IF ~IsSuccess(r.status) THEN Err(HttpError(r.status))
    ELSE IF r.content_type = None THEN Err(NoContentTypeError)
    ELSE IF <<r.content_type[1].type, r.content_type[1].subtype>> #
            <<"text", "event-stream">>
    THEN Err(InvalidContentTypeError(r.content_type[1]))
    ELSE Ok(r.body)

\* A buggy variant of NeedsConnect: a request is made on every call.
NeedsConnectAlways(resp) == TRUE

\* next, line 122: self.response.is_none()
NeedsConnect(resp) == resp = None

\* A buggy variant of SleepFor: the first attempt waits too.
SleepForAlways(lt, t, r) ==
    IF lt = None THEN r
    ELSE IF t - lt[1] < r THEN r - (t - lt[1]) ELSE 0

\* A buggy variant of SleepFor: the default interval is waited out, whatever
\* self.retry is.
SleepForDefault(lt, t, r) ==
    IF lt # None /\ t - lt[1] < DEFAULT_RETRY
    THEN DEFAULT_RETRY - (t - lt[1]) ELSE 0

\* A buggy variant of SleepFor: the retry interval is not waited out.
SleepForNothing(lt, t, r) == 0

\* next, lines 124-129: how long the thread sleeps before the request.
SleepFor(lt, t, r) ==
    IF lt # None /\ t - lt[1] < r THEN r - (t - lt[1]) ELSE 0

\* A buggy variant of OnDispatch: the id is stored whether or not it is set.
OnDispatchAlways(leid, ev) == ev.id

\* next, lines 148-150: last_event_id after a dispatch of ev.
OnDispatch(leid, ev) == IF ev.id # None THEN ev.id ELSE leid

\* A buggy variant of OnSetRetry: the directive is dropped.
OnSetRetryDropped(r, d) == r

\* next, lines 153-155: self.retry after a SetRetry(d) verdict.
OnSetRetry(r, d) == d

\* A buggy variant of Consume: the line stays in the buffer.
ConsumeNothing(conn, n) == conn

\* BufReader::read_line consumes the n bytes it returned (line 142).
Consume(conn, n) == [conn EXCEPT !.pos = @ + n]

\* ----------------------------------------------------------------- server

L_blank == <<NL>>

L_comment == <<":", "c", NL>>

L_id_1 == S_id \o <<":", " ", "1", NL>>

L_id_2 == S_id \o <<":", "2", NL>>

L_id_3 == S_id \o <<":", " ", "3", NL>>

L_data_a == S_data \o <<":", " ", "a", NL>>

L_data_b == S_data \o <<":", " ", "b", CR, NL>>

L_retry_0 == S_retry \o <<":", " ", "0", NL>>

L_retry_7500 == S_retry \o <<":", " ", "7", "5", "0", "0", NL>>

\* The response bodies the server may send, as character streams.
Bodies ==
    << L_id_1 \o L_data_a \o L_blank \o L_data_b \o <<CR, NL>>,
       L_retry_0,
       << >>,
       L_comment \o L_id_2 \o L_blank \o L_id_3,
       L_retry_7500 \o L_blank >>

MimeEventStream == [type |-> "text", subtype |-> "event-stream", params |-> ""]

MimeEventStreamUtf8 ==
    [type |-> "text", subtype |-> "event-stream", params |-> "charset=utf-8"]

MimePlain == [type |-> "text", subtype |-> "plain", params |-> ""]

\* The responses the server may give: status, the Content-Type header as
\* res.headers().get::<ContentType>() returns it, and the body.
Responses ==
    {[status |-> 200, content_type |-> Some(MimeEventStream), body |-> b] :
        b \in 1..Len(Bodies)}
    \cup {[status |-> 200, content_type |-> Some(MimeEventStreamUtf8), body |-> 1]}
    \cup {[status |-> st, content_type |-> ct, body |-> 3] :
            st \in {200, 204, 404},
            ct \in {None, Some(MimePlain), Some(MimeEventStream)}}

\* The default headers a caller may have set on the client before iterating.
S_any == <<"*", "/", "*">>

CallerHeaders ==
    { EmptyHeaders,
      [n \in {"Accept", "Last-Event-ID", "X-Token"} |->
          IF n = "Accept" THEN S_any ELSE IF n = "X-Token" THEN <<"k">> ELSE <<"9">>] }

\* The URL the client is constructed with.
TargetUrl == "http://server/events"

\* ------------------------------------------------------------------ state

VARIABLES
    response,         \* Client.response: None or Some([body, pos])
    last_event_id,    \* Client.last_event_id
    last_try,         \* Client.last_try
    retry,            \* Client.retry, in milliseconds
    default_headers,  \* Client.default_headers
    url,              \* Client.url
    pc,               \* position of the running next() call, "idle" between calls
    depth,            \* number of nested activations of next()
    event,            \* the local accumulator `event` of next()
    res,              \* outcome of send() in next_request
    result,           \* the local `result` of next() when the read loop breaks
    now,              \* Instant::now()
    ret,              \* the value the last completed next() call returned
    request,          \* the last outbound request: its URL, its headers and
                      \* the attempt timestamp recorded for it
    open,             \* number of response objects alive
    prev_try,         \* last_try as it was before the current attempt overwrote it
    prev_attempt,     \* the attempt timestamp of the request before the current one
    yielded_id,       \* id of the last yielded event that carried one
    consumed,         \* the bytes read_line returned on the active connection
    conn_yield,       \* the events yielded from the active connection
    headers0,         \* default_headers as the caller set them
    fed               \* the lines a live stream has delivered on the connection

vars ==
    <<response, last_event_id, last_try, retry, default_headers, url, pc, depth,
      event, res, result, now, ret, request, open, prev_try, prev_attempt,
      yielded_id, consumed, conn_yield, headers0, fed>>

\* The fields of Client.
client == <<response, last_event_id, last_try, retry, default_headers, url>>

\* The observations kept beside the program state.
history ==
    <<prev_try, prev_attempt, yielded_id, consumed, conn_yield, headers0, fed>>

\* Client::new, before the first call of next().
Init ==
    /\ response = None
    /\ last_event_id = None
    /\ last_try = None
    /\ retry = DEFAULT_RETRY
    /\ default_headers \in CallerHeaders
    /\ headers0 = default_headers
    /\ url = TargetUrl
    /\ fed = << >>
    /\ pc = "idle"
    /\ depth = 0
    /\ event = NewEvent
    /\ res = None
    /\ result = None
    /\ now = 0
    /\ ret = None
    /\ request = None
    /\ open = 0
    /\ prev_try = None
    /\ prev_attempt = None
    /\ yielded_id = None
    /\ consumed = << >>
    /\ conn_yield = << >>

\* BufReader::read_line on the active connection: the bytes up to and
\* including the next "\n", or the rest of the body; empty at end of stream.
ReadLine(conn) ==
    LET rest == Drop(Bodies[conn.body], conn.pos - 1)
        nl == FindChar(rest, NL)
    IN  IF nl = 0 THEN rest ELSE SubSeq(rest, 1, nl)

\* next() returns v to its caller: every activation ends (line 171 returns
\* what the nested call returned).
Return(v) ==
    /\ pc' = "idle"
    /\ depth' = 0
    /\ ret' = v
    /\ yielded_id' =
         IF v # None /\ v[1].ok /\ v[1].val.id # None THEN v[1].val.id ELSE yielded_id
    /\ conn_yield' =
         IF v # None /\ v[1].ok THEN Append(conn_yield, v[1].val) ELSE conn_yield

\* A buggy variant of try_option: an Err ends the iteration.
try_option_ends(e) == None

\* try_option!: an Err makes next() return Some(Err(err)).
try_option(e) == Some(Err(e.err))

\* The consumer calls next().
Call ==
    /\ pc = "idle"
    /\ pc' = "entry"
    /\ depth' = 1
    /\ UNCHANGED <<client, event, res, result, now, ret, request, open, history>>

\* A variant of StartRead: the accumulator of the previous call is kept.
StartReadKeepsEvent ==
    /\ pc = "entry"
    /\ ~NeedsConnect(response)
    /\ pc' = "read"
    /\ UNCHANGED <<client, depth, event, res, result, now, ret, request, open,
                   history>>

\* next, lines 122 and 136-139: a connection is held, the read loop starts
\* with a fresh accumulator.
StartRead ==
    /\ pc = "entry"
    /\ ~NeedsConnect(response)
    /\ pc' = "read"
    /\ event' = NewEvent
    /\ UNCHANGED <<client, depth, res, result, now, ret, request, open, history>>

\* next, lines 122-131: no connection is held; wait out the retry interval
\* and record the attempt.
Wait ==
    /\ pc = "entry"
    /\ NeedsConnect(response)
    /\ \E late \in {0, TickStep} :
          LET d == SleepFor(last_try, now, retry)
              t == now + d + (IF d > 0 THEN late ELSE 0)
          IN  /\ t <= MaxTime
              /\ now' = t
              /\ last_try' = Some(t)
    /\ prev_try' = last_try
    /\ prev_attempt' = IF request # None THEN Some(request[1].stamp) ELSE None
    /\ pc' = "request"
    /\ UNCHANGED <<response, last_event_id, retry, default_headers, url, depth, event,
                   res, result, ret, request, open, yielded_id, consumed,
                   conn_yield, headers0, fed>>

\* next_request, lines 76-82: the request is sent and fails in transport.
SendFails ==
    /\ pc = "request"
    /\ request' = Some([url |-> url,
                        headers |-> RequestHeaders(default_headers, last_event_id),
                        stamp |-> last_try[1]])
    /\ res' = Some(Err(ReqwestError))
    /\ pc' = "sent"
    /\ UNCHANGED <<client, depth, event, result, now, ret, open, history>>

\* next_request, lines 76-82: the request is sent and the server responds.
SendResponds ==
    /\ pc = "request"
    /\ request' = Some([url |-> url,
                        headers |-> RequestHeaders(default_headers, last_event_id),
                        stamp |-> last_try[1]])
    /\ \E r \in Responses : res' = Some(Ok(r))
    /\ open' = open + 1
    /\ pc' = "sent"
    /\ UNCHANGED <<client, depth, event, result, now, ret, history>>

\* A variant of ConnectFails: a response that fails the checks is stored as
\* the active connection all the same.
ConnectFailsKeepsResponse ==
    /\ pc = "sent"
    /\ LET e == IF res[1].ok THEN CheckResponse(res[1].val) ELSE res[1]
       IN  /\ ~e.ok
           /\ Return(try_option(e))
    /\ response' =
         IF res[1].ok THEN Some([body |-> res[1].val.body, pos |-> 1]) ELSE response
    /\ res' = None
    /\ UNCHANGED <<last_event_id, last_try, retry, default_headers, url, event,
                   result, now, request, open, prev_try, prev_attempt, consumed,
                   headers0, fed>>

\* next_request, line 82 (?) and lines 85-100, and next, line 133: the request
\* failed or the response is rejected; the response is dropped and next()
\* returns the error.
ConnectFails ==
    /\ pc = "sent"
    /\ LET e == IF res[1].ok THEN CheckResponse(res[1].val) ELSE res[1]
       IN  /\ ~e.ok
           /\ Return(try_option(e))
    /\ open' = IF res[1].ok THEN open - 1 ELSE open
    /\ res' = None
    /\ UNCHANGED <<client, event, result, now, request, prev_try, prev_attempt,
                   consumed, headers0, fed>>

\* next_request, lines 85-103, and next, lines 136-139: the response passes
\* the checks and becomes the active connection; the read loop starts.
ConnectSucceeds ==
    /\ pc = "sent"
    /\ res[1].ok
    /\ CheckResponse(res[1].val).ok
    /\ response' = Some([body |-> CheckResponse(res[1].val).val, pos |-> 1])
    /\ open' = IF response # None THEN open - 1 ELSE open
    /\ res' = None
    /\ consumed' = << >>
    /\ conn_yield' = << >>
    /\ event' = NewEvent
    /\ pc' = "read"
    /\ UNCHANGED <<last_event_id, last_try, retry, default_headers, url, depth, result,
                   now, ret, request, prev_try, prev_attempt, yielded_id, headers0, fed>>

\* A variant of ReadField: an id line is stored as last_event_id at once.
ReadFieldStoresId ==
    /\ pc = "read"
    /\ LET line == ReadLine(response[1])
           p == parse_event_line(line, event)
       IN  /\ Len(line) > 0
           /\ p.verdict = "Next"
           /\ event' = p.event
           /\ last_event_id' = OnDispatch(last_event_id, p.event)
           /\ response' = Some(Consume(response[1], Len(line)))
           /\ consumed' = consumed \o line
    /\ UNCHANGED <<last_try, retry, default_headers, url, pc, depth, res,
                   result, now, ret, request, open, prev_try, prev_attempt,
                   yielded_id, conn_yield, headers0, fed>>

\* next, lines 142-146 and 157: a line is read and the parser says Next.
ReadField ==
    /\ pc = "read"
    /\ LET line == ReadLine(response[1])
           p == parse_event_line(line, event)
       IN  /\ Len(line) > 0
           /\ p.verdict = "Next"
           /\ event' = p.event
           /\ response' = Some(Consume(response[1], Len(line)))
           /\ consumed' = consumed \o line
    /\ UNCHANGED <<last_event_id, last_try, retry, default_headers, url, pc, depth, res,
                   result, now, ret, request, open, prev_try, prev_attempt, yielded_id,
                   conn_yield, headers0, fed>>

\* next, lines 142-145 and 153-157: a line is read and the parser says SetRetry.
ReadRetry ==
    /\ pc = "read"
    /\ LET line == ReadLine(response[1])
           p == parse_event_line(line, event)
       IN  /\ Len(line) > 0
           /\ p.verdict = "SetRetry"
           /\ event' = p.event
           /\ retry' = OnSetRetry(retry, p.retry)
           /\ response' = Some(Consume(response[1], Len(line)))
           /\ consumed' = consumed \o line
    /\ UNCHANGED <<last_event_id, last_try, default_headers, url, pc, depth, res,
                   result, now, ret, request, open, prev_try, prev_attempt, yielded_id,
                   conn_yield, headers0, fed>>

\* next, lines 142-152: a line is read and the parser says Dispatch; the id
\* is remembered and the event is returned.
ReadDispatch ==
    /\ pc = "read"
    /\ LET line == ReadLine(response[1])
           p == parse_event_line(line, event)
       IN  /\ Len(line) > 0
           /\ p.verdict = "Dispatch"
           /\ event' = p.event
           /\ last_event_id' = OnDispatch(last_event_id, p.event)
           /\ Return(Some(Ok(p.event)))
           /\ response' = Some(Consume(response[1], Len(line)))
           /\ consumed' = consumed \o line
    /\ UNCHANGED <<last_try, retry, default_headers, url, res, result, now, request,
                   open, prev_try, prev_attempt, headers0, fed>>

\* next, line 160: read_line returns Ok(0), the loop breaks with None.
ReadEof ==
    /\ pc = "read"
    /\ Len(ReadLine(response[1])) = 0
    /\ result' = None
    /\ pc' = "lost"
    /\ UNCHANGED <<client, depth, event, res, now, ret, request, open, history>>

\* next, line 161: read_line fails, the loop breaks with Some(Err(err)).
ReadIoError ==
    /\ pc = "read"
    /\ result' = Some(Err(IoError))
    /\ pc' = "lost"
    /\ UNCHANGED <<client, depth, event, res, now, ret, request, open, history>>

\* A variant of Lost: EOF ends the iteration, next() returns None.
LostEndsOnEof ==
    /\ pc = "lost"
    /\ last_try' = Some(now)
    /\ response' = None
    /\ open' = open - 1
    /\ IF result = None
       THEN /\ Return(None)
            /\ UNCHANGED <<last_event_id, retry, default_headers, url, event, res,
                           result, now, request, prev_try, prev_attempt, consumed,
                           headers0, fed>>
       ELSE /\ depth < MaxDepth
            /\ depth' = depth + 1
            /\ pc' = "entry"
            /\ UNCHANGED <<last_event_id, retry, default_headers, url, event, res,
                           result, now, ret, request, history>>

\* A variant of Lost: the attempt time is not recorded at the loss.
LostKeepsTimestamp ==
    /\ pc = "lost"
    /\ depth < MaxDepth
    /\ response' = None
    /\ open' = open - 1
    /\ depth' = depth + 1
    /\ pc' = "entry"
    /\ UNCHANGED <<last_event_id, last_try, retry, default_headers, url, event, res,
                   result, now, ret, request, history>>

\* A variant of Lost: a stream error is returned to the caller, only EOF
\* makes next() call itself.
LostSurfacesError ==
    /\ pc = "lost"
    /\ last_try' = Some(now)
    /\ response' = None
    /\ open' = open - 1
    /\ IF result # None
       THEN /\ Return(result)
            /\ UNCHANGED <<last_event_id, retry, default_headers, url, event, res, result,
                           now, request, prev_try, prev_attempt, consumed, headers0, fed>>
       ELSE /\ depth < MaxDepth
            /\ depth' = depth + 1
            /\ pc' = "entry"
            /\ UNCHANGED <<last_event_id, retry, default_headers, url, event, res, result,
                           now, ret, request, history>>

\* next, lines 166-172: after EOF or a stream error the attempt time is
\* recorded, the connection is dropped and next() calls itself.
Lost ==
    /\ pc = "lost"
    /\ depth < MaxDepth
    /\ last_try' = Some(now)
    /\ response' = None
    /\ open' = open - 1
    /\ depth' = depth + 1
    /\ pc' = "entry"
    /\ UNCHANGED <<last_event_id, retry, default_headers, url, event, res, result, now,
                   ret, request, history>>

\* Time passes while the consumer is between calls or the thread is blocked
\* in read_line().
Tick ==
    /\ pc \in {"idle", "read"}
    /\ now + TickStep <= MaxTime
    /\ now' = now + TickStep
    /\ UNCHANGED <<client, pc, depth, event, res, result, ret, request, open, history>>

Next ==
    \/ Call
    \/ StartRead
    \/ Wait
    \/ SendFails
    \/ SendResponds
    \/ ConnectFails
    \/ ConnectSucceeds
    \/ ReadField
    \/ ReadRetry
    \/ ReadDispatch
    \/ ReadEof
    \/ ReadIoError
    \/ Lost
    \/ Tick

Spec == Init /\ [][Next]_vars

\* ------------------------------------------------------------ live stream

\* Lines a live stream delivers.
MaxLines == 4

\* A line of a live stream: its text, and what it is by the event-stream
\* grammar (field name, value, whether it has a colon).
Line(text, field, value, colon) ==
    [text |-> text, field |-> field, value |-> value, colon |-> colon]

LineAlphabet ==
    { Line(<<NL>>, "blank", << >>, FALSE),
      Line(<<CR, NL>>, "blank", << >>, FALSE),
      Line(L_comment, "comment", << >>, TRUE),
      Line(S_data \o <<":", " ", "x", NL>>, "data", <<"x">>, TRUE),
      Line(S_data \o <<":", NL>>, "data", << >>, TRUE),
      Line(S_event \o <<":", " ", "e", NL>>, "event", <<"e">>, TRUE),
      Line(S_event \o <<":", "f", CR, NL>>, "event", <<"f">>, TRUE),
      Line(S_id \o <<":", " ", "7", NL>>, "id", <<"7">>, TRUE),
      Line(S_id \o <<NL>>, "id", << >>, FALSE),
      Line(L_retry_0, "retry", <<"0">>, TRUE),
      Line(S_retry \o <<":", " ", "x", NL>>, "retry", <<"x">>, TRUE),
      Line(<<"f", "o", "o", ":", " ", "1", NL>>, "unknown", <<"1">>, TRUE),
      Line(<<"f", "o", "o", NL>>, "unknown", << >>, FALSE) }

\* A client that has connected (Client::new, then next() up to line 139) to
\* a stream whose lines arrive while it is read.
InitLive ==
    /\ response = Some([body |-> 0, pos |-> 1])
    /\ last_event_id = None
    /\ last_try = Some(0)
    /\ retry = DEFAULT_RETRY
    /\ default_headers = EmptyHeaders
    /\ headers0 = default_headers
    /\ url = TargetUrl
    /\ fed = << >>
    /\ pc = "read"
    /\ depth = 1
    /\ event = NewEvent
    /\ res = None
    /\ result = None
    /\ now = 0
    /\ ret = None
    /\ request = Some([url |-> url,
                       headers |-> RequestHeaders(default_headers, last_event_id),
                       stamp |-> 0])
    /\ open = 1
    /\ prev_try = None
    /\ prev_attempt = None
    /\ yielded_id = None
    /\ consumed = << >>
    /\ conn_yield = << >>

\* next, lines 142-146 and 157, on a live stream: the parser says Next.
LiveField ==
    /\ pc = "read"
    /\ Len(fed) < MaxLines
    /\ \E l \in LineAlphabet :
          LET p == parse_event_line(l.text, event)
          IN  /\ p.verdict = "Next"
              /\ event' = p.event
              /\ response' = Some(Consume(response[1], Len(l.text)))
              /\ consumed' = consumed \o l.text
              /\ fed' = Append(fed, l)
    /\ UNCHANGED <<last_event_id, last_try, retry, default_headers, url, pc, depth,
                   res, result, now, ret, request, open, prev_try, prev_attempt,
                   yielded_id, conn_yield, headers0>>

\* A variant of LiveRetry: the accumulator is reset by a retry line.
LiveRetryResets ==
    /\ pc = "read"
    /\ Len(fed) < MaxLines
    /\ \E l \in LineAlphabet :
          LET p == parse_event_line(l.text, event)
          IN  /\ p.verdict = "SetRetry"
              /\ event' = NewEvent
              /\ retry' = OnSetRetry(retry, p.retry)
              /\ response' = Some(Consume(response[1], Len(l.text)))
              /\ consumed' = consumed \o l.text
              /\ fed' = Append(fed, l)
    /\ UNCHANGED <<last_event_id, last_try, default_headers, url, pc, depth, res,
                   result, now, ret, request, open, prev_try, prev_attempt,
                   yielded_id, conn_yield, headers0>>

\* next, lines 142-145 and 153-157, on a live stream: the parser says SetRetry.
LiveRetry ==
    /\ pc = "read"
    /\ Len(fed) < MaxLines
    /\ \E l \in LineAlphabet :
          LET p == parse_event_line(l.text, event)
          IN  /\ p.verdict = "SetRetry"
              /\ event' = p.event
              /\ retry' = OnSetRetry(retry, p.retry)
              /\ response' = Some(Consume(response[1], Len(l.text)))
              /\ consumed' = consumed \o l.text
              /\ fed' = Append(fed, l)
    /\ UNCHANGED <<last_event_id, last_try, default_headers, url, pc, depth, res,
                   result, now, ret, request, open, prev_try, prev_attempt,
                   yielded_id, conn_yield, headers0>>

\* A variant of LiveDispatch: an event without any field is not returned,
\* the loop keeps reading.
LiveDispatchSkipsEmpty ==
    /\ pc = "read"
    /\ Len(fed) < MaxLines
    /\ \E l \in LineAlphabet :
          LET p == parse_event_line(l.text, event)
          IN  /\ p.verdict = "Dispatch"
              /\ event' = p.event
              /\ response' = Some(Consume(response[1], Len(l.text)))
              /\ consumed' = consumed \o l.text
              /\ fed' = Append(fed, l)
              /\ IF p.event = NewEvent
                 THEN UNCHANGED <<last_event_id, pc, depth, ret, yielded_id, conn_yield>>
                 ELSE /\ last_event_id' = OnDispatch(last_event_id, p.event)
                      /\ Return(Some(Ok(p.event)))
    /\ UNCHANGED <<last_try, retry, default_headers, url, res, result, now, request,
                   open, prev_try, prev_attempt, headers0>>

\* next, lines 142-152, on a live stream: the parser says Dispatch; the id is
\* remembered and the event is returned.
LiveDispatch ==
    /\ pc = "read"
    /\ Len(fed) < MaxLines
    /\ \E l \in LineAlphabet :
          LET p == parse_event_line(l.text, event)
          IN  /\ p.verdict = "Dispatch"
              /\ event' = p.event
              /\ last_event_id' = OnDispatch(last_event_id, p.event)
              /\ Return(Some(Ok(p.event)))
              /\ response' = Some(Consume(response[1], Len(l.text)))
              /\ consumed' = consumed \o l.text
              /\ fed' = Append(fed, l)
    /\ UNCHANGED <<last_try, retry, default_headers, url, res, result, now, request,
                   open, prev_try, prev_attempt, headers0>>

NextLive ==
    \/ Call
    \/ StartRead
    \/ LiveField
    \/ LiveRetry
    \/ LiveDispatch

\* The client reading a live stream, line by line.
LiveSpec == InitLive /\ [][NextLive]_vars

\* ----------------------------------------------------------------- claims

\* The events a character stream dispatches: one per blank line, built from
\* the field lines since the previous blank line.
RECURSIVE EventsFrom(_, _, _)
EventsFrom(stream, ev, out) ==
    IF stream = << >> THEN out
    ELSE LET nl == FindChar(stream, NL)
             line == IF nl = 0 THEN stream ELSE SubSeq(stream, 1, nl)
             p == parse_event_line(line, ev)
         IN  IF p.verdict = "Dispatch"
             THEN EventsFrom(Drop(stream, Len(line)), NewEvent, Append(out, p.event))
             ELSE EventsFrom(Drop(stream, Len(line)), p.event, out)

EventsOf(stream) == EventsFrom(stream, NewEvent, << >>)

IsErr(v) == v # None /\ ~v[1].ok

IsEvent(v) == v # None /\ v[1].ok

\* C1: at most one connection is held at any time: the response objects alive
\* are the stored connection and the response under validation, never both;
\* a request is issued only while the active-connection field is empty.
C1_AtMostOneConnection ==
    /\ open <= 1
    /\ open = (IF response # None THEN 1 ELSE 0)
              + (IF res # None /\ res[1].ok THEN 1 ELSE 0)
    /\ pc \in {"request", "sent"} => response = None

\* A replacement response has arrived after an earlier connection was lost.
C1_Witness ==
    /\ pc = "sent"
    /\ depth >= 2
    /\ res # None /\ res[1].ok
    /\ open = 1

\* C2: once an event with id X has been yielded, every outbound request
\* carries Last-Event-ID: X, until an event with another id is yielded.
C2_LastEventIdSticky ==
    (pc = "sent" /\ yielded_id # None) =>
        /\ "Last-Event-ID" \in DOMAIN request[1].headers
        /\ request[1].headers["Last-Event-ID"] = yielded_id[1]

\* A request sent on a reconnect, after an event with an id and then an event
\* without one were yielded.
C2_Witness ==
    /\ pc = "sent"
    /\ depth >= 2
    /\ yielded_id = Some(<<"1">>)
    /\ IsEvent(ret) /\ ret[1].val.id = None
    /\ request[1].headers["Last-Event-ID"] = <<"1">>

\* C3: a connection attempt is made no earlier than the retry interval after
\* the attempt timestamp recorded before it, and a failed connect leaves no
\* connection.
C3_AttemptsSeparated ==
    /\ (pc \in {"request", "sent"} /\ prev_try # None) =>
           last_try[1] - prev_try[1] >= retry
    /\ (pc = "sent" /\ prev_attempt # None) =>
           request[1].stamp - prev_attempt[1] >= retry
    /\ (pc = "idle" /\ IsErr(ret)) => response = None

\* The call after a 404 has waited and sent its request.
C3_Witness ==
    /\ pc = "sent"
    /\ depth = 1
    /\ ret = Some(Err(HttpError(404)))
    /\ prev_attempt # None
    /\ request[1].stamp - prev_attempt[1] = DEFAULT_RETRY

\* C4: the response is validated in the order status, presence of
\* Content-Type, (type, subtype); a connection is stored exactly when all pass.
C4_ValidationOrder ==
    [][(pc = "sent" /\ res[1].ok) =>
         LET r == res[1].val
             failed(e) == /\ pc' = "idle"
                          /\ ret' = Some(Err(e))
                          /\ response' = None
         IN  IF ~(200 <= r.status /\ r.status <= 299)
             THEN failed(HttpError(r.status))
             ELSE IF r.content_type = None
             THEN failed(NoContentTypeError)
             ELSE IF r.content_type[1].type # "text"
                     \/ r.content_type[1].subtype # "event-stream"
             THEN failed(InvalidContentTypeError(r.content_type[1]))
             ELSE /\ pc' = "read"
                  /\ response' = Some([body |-> r.body, pos |-> 1])
                  /\ ret' = ret]_vars

\* A 404 without Content-Type has been reported as an HTTP status error.
C4_Witness ==
    /\ pc = "idle"
    /\ ret = Some(Err(HttpError(404)))
    /\ response = None
    /\ open = 0

C6_NoTerminalState ==
    [][/\ (pc # "idle" /\ pc' = "idle") => ret' # None
       /\ (pc' = "idle" /\ IsErr(ret')) => response' = None
       /\ (pc = "entry" /\ depth = 1 /\ IsErr(ret)) =>
            /\ pc' = "request"
            /\ last_try'[1] - last_try[1] >= retry]_vars

\* A call that follows an error result has recorded a new attempt.
C6_Witness ==
    /\ pc = "request"
    /\ depth = 1
    /\ ret = Some(Err(NoContentTypeError))
    /\ last_try[1] - prev_try[1] >= retry

\* C7: one activation of next() at most, however many connections end in EOF.
C7_ConstantDepth == depth <= 1

\* C8: only a retry line changes retry, to its value and without a dispatch,
\* and every reconnect wait lasts until retry has elapsed since last_try.
C8_RetryDirective ==
    [][/\ retry' # retry =>
            /\ pc = "read"
            /\ parse_event_line(ReadLine(response[1]), event).verdict = "SetRetry"
            /\ retry' = parse_event_line(ReadLine(response[1]), event).retry
       /\ (/\ pc = "read"
           /\ parse_event_line(ReadLine(response[1]), event).verdict = "SetRetry"
           /\ consumed' # consumed) =>
            /\ retry' = parse_event_line(ReadLine(response[1]), event).retry
            /\ pc' = "read"
            /\ ret' = ret
            /\ event' = event
       /\ (pc = "entry" /\ pc' = "request" /\ last_try # None) =>
            last_try'[1] - last_try[1] >= retry]_vars

\* After "retry: 0" a connect failure and the next attempt follow at once.
C8_Witness ==
    /\ pc = "request"
    /\ depth = 1
    /\ retry = 0
    /\ IsErr(ret)
    /\ now = 0

\* C9: a request carries Accept: text/event-stream, Last-Event-ID when an id
\* is set, and every other default header unchanged; the stored default
\* headers stay as the caller set them.
C9_RequestHeaders ==
    /\ default_headers = headers0
    /\ pc = "sent" =>
         LET h == request[1].headers
             protocol == {"Accept"} \cup
                         (IF last_event_id # None THEN {"Last-Event-ID"} ELSE {})
         IN  /\ DOMAIN h = (DOMAIN headers0) \cup protocol
             /\ h["Accept"] = TEXT_EVENT_STREAM
             /\ last_event_id # None => h["Last-Event-ID"] = last_event_id[1]
             /\ \A n \in (DOMAIN headers0) \ protocol : h[n] = headers0[n]

\* A request sent with an id set while the defaults hold both protocol headers.
C9_Witness ==
    /\ pc = "sent"
    /\ last_event_id # None
    /\ {"Accept", "Last-Event-ID", "X-Token"} \subseteq DOMAIN default_headers
    /\ request[1].headers["Last-Event-ID"] # default_headers["Last-Event-ID"]

\* C10: on one connection the bytes read so far are exactly the body up to
\* the read position, and the events yielded are exactly the events of those
\* bytes, in order.
C10_ReadPositionPreserved ==
    response # None =>
        /\ consumed = SubSeq(Bodies[response[1].body], 1, response[1].pos - 1)
        /\ conn_yield = EventsOf(consumed)

\* Two calls have yielded the two events of a body from one connection.
C10_Witness ==
    /\ pc = "idle"
    /\ response # None
    /\ response[1].pos = Len(Bodies[response[1].body]) + 1
    /\ Len(conn_yield) = 2
    /\ conn_yield = EventsOf(Bodies[response[1].body])

\* The lines of a live stream after its last blank line but one, the final
\* blank line excluded: the lines of the event the final blank line ends.
RECURSIVE LastSegment(_)
LastSegment(ls) ==
    IF ls = << >> \/ ls[Len(ls)].field = "blank" THEN << >>
    ELSE Append(LastSegment(SubSeq(ls, 1, Len(ls) - 1)), ls[Len(ls)])

\* The values of the lines of ls that carry field f, in order.
RECURSIVE ValuesOf(_, _)
ValuesOf(ls, f) ==
    IF ls = << >> THEN << >>
    ELSE IF Head(ls).field = f THEN <<Head(ls).value>> \o ValuesOf(Tail(ls), f)
    ELSE ValuesOf(Tail(ls), f)

\* The texts of vs joined by a single newline.
RECURSIVE JoinLines(_)
JoinLines(vs) ==
    IF vs = << >> THEN << >>
    ELSE IF Len(vs) = 1 THEN vs[1]
    ELSE vs[1] \o <<NL>> \o JoinLines(Tail(vs))

\* Number of blank lines in ls.
RECURSIVE Blanks(_)
Blanks(ls) ==
    IF ls = << >> THEN 0
    ELSE (IF Head(ls).field = "blank" THEN 1 ELSE 0) + Blanks(Tail(ls))

\* The lines of the event that the last line of ls, a blank line, ended.
Dispatched(ls) == LastSegment(SubSeq(ls, 1, Len(ls) - 1))

\* C11: field lines followed by a blank line dispatch exactly once, at the
\* blank line, with event_type the last event value and data the data values
\* in arrival order joined by a single newline.
C11_DispatchJoinsData ==
    /\ Len(conn_yield) = Blanks(fed)
    /\ (pc = "idle" /\ fed # << >>) =>
         LET seg == Dispatched(fed)
             types == ValuesOf(seg, "event")
         IN  /\ IsEvent(ret)
             /\ ret[1].val.event_type =
                  (IF types = << >> THEN S_message ELSE types[Len(types)])
             /\ ret[1].val.data = JoinLines(ValuesOf(seg, "data"))

\* C12: a blank line, and no other line, makes next() return an event, and
\* without field lines before it the event is the default one.
C12_BlankLineDispatches ==
    [][fed' # fed =>
         LET l == fed'[Len(fed')]
             seg == LastSegment(fed)
         IN  /\ (l.field = "blank") <=>
                   /\ pc' = "idle"
                   /\ IsEvent(ret')
                   /\ conn_yield' = Append(conn_yield, ret'[1].val)
             /\ (/\ l.field = "blank"
                 /\ \A i \in 1..Len(seg) : seg[i].field \notin {"data", "event", "id"}) =>
                   ret' = Some(Ok([id |-> None, event_type |-> S_message,
                                   data |-> << >>]))]_vars

\* The first line of the stream was blank and the default event was returned.
C12_Witness ==
    /\ pc = "idle"
    /\ Len(fed) = 1
    /\ fed[1].field = "blank"
    /\ ret = Some(Ok([id |-> None, event_type |-> S_message, data |-> << >>]))

C14_FreshClient ==
    [][/\ (pc = "idle" /\ request = None) =>
            /\ retry = 5000
            /\ last_event_id = None
            /\ last_try = None
            /\ response = None
            /\ open = 0
       /\ (pc = "entry" /\ request = None) =>
            /\ pc' = "request"
            /\ now' = now
       /\ (pc = "request" /\ request = None) =>
            /\ request' # None
            /\ "Last-Event-ID" \in DOMAIN request'[1].headers
                 <=> "Last-Event-ID" \in DOMAIN headers0
            /\ headers0 = EmptyHeaders => DOMAIN request'[1].headers = {"Accept"}]_vars

\* The first request has gone out at the time of the call.
C14_Witness ==
    /\ pc = "sent"
    /\ prev_try = None
    /\ prev_attempt = None
    /\ headers0 = EmptyHeaders
    /\ now = TickStep
    /\ request[1].stamp = now
    /\ DOMAIN request[1].headers = {"Accept"}

\* C15: at EOF nothing is returned: the connection is dropped, the attempt
\* time recorded and the same call is back at the connect step; such a call
\* returns an event of a later connection or a connect error.
C15_EofReconnectsInCall ==
    [][/\ (pc = "lost" /\ result = None) =>
            /\ response' = None
            /\ open' = open - 1
            /\ last_try' = Some(now)
            /\ pc' = "entry"
            /\ ret' = ret
       /\ (depth >= 2 /\ pc' = "idle") =>
            \/ /\ IsEvent(ret')
               /\ response' # None
               /\ conn_yield'[Len(conn_yield')] = ret'[1].val
            \/ /\ IsErr(ret')
               /\ ret'[1].err.kind \in
                    {"Reqwest", "Http", "NoContentType", "InvalidContentType"}]_vars

\* After EOF the same call is back at the connect step.
C15_Witness ==
    /\ pc = "entry"
    /\ depth = 2
    /\ result = None
    /\ response = None
    /\ last_try = Some(now)

\* C16: a connection loss records its own time as the attempt time, and the
\* reconnect request waits until retry has elapsed since the loss.
C16_WaitCountsFromLoss ==
    [][/\ pc = "lost" =>
            /\ last_try' = Some(now)
            /\ now' = now
            /\ pc' = "entry"
       /\ (pc = "entry" /\ depth >= 2) =>
            /\ pc' = "request"
            /\ now' - last_try[1] >= retry]_vars

\* A connection opened at 0 was lost after one default interval; the
\* reconnect request waited a full interval more.
C16_Witness ==
    /\ pc = "request"
    /\ depth = 2
    /\ prev_attempt = Some(0)
    /\ prev_try = Some(DEFAULT_RETRY)
    /\ retry = DEFAULT_RETRY
    /\ now = 2 * DEFAULT_RETRY

\* C17: last_event_id changes only when an event with an id is returned, to
\* that id; an id that was read but not dispatched reaches neither
\* last_event_id nor a request.
C17_IdOnlyAtDispatch ==
    [][/\ last_event_id' # last_event_id =>
            /\ pc = "read"
            /\ pc' = "idle"
            /\ IsEvent(ret')
            /\ ret'[1].val.id # None
            /\ last_event_id' = ret'[1].val.id
       /\ (pc = "read" /\ pc' = "idle" /\ ret'[1].val.id = None) =>
            last_event_id' = last_event_id
       /\ last_event_id' = yielded_id'
       /\ (request' # request /\ yielded_id # None) =>
            request'[1].headers["Last-Event-ID"] = yielded_id[1]
       /\ (request' # request /\ yielded_id = None) =>
            \A n \in {"Last-Event-ID"} \cap DOMAIN request'[1].headers :
               /\ n \in DOMAIN headers0
               /\ request'[1].headers[n] = headers0[n]]_vars

\* The id 3 was read but the stream ended before the blank line; the
\* reconnect request carries the id 2 of the last event returned.
C17_Witness ==
    /\ pc = "sent"
    /\ depth >= 2
    /\ event.id = Some(<<"3">>)
    /\ last_event_id = Some(<<"2">>)
    /\ request[1].headers["Last-Event-ID"] = <<"2">>

\* The accumulator after the bytes of stream: the fields of the lines that
\* follow the last blank line.
RECURSIVE AccFrom(_, _)
AccFrom(stream, ev) ==
    IF stream = << >> THEN ev
    ELSE LET nl == FindChar(stream, NL)
             line == IF nl = 0 THEN stream ELSE SubSeq(stream, 1, nl)
             p == parse_event_line(line, ev)
         IN  IF p.verdict = "Dispatch"
             THEN AccFrom(Drop(stream, Len(line)), NewEvent)
             ELSE AccFrom(Drop(stream, Len(line)), p.event)

AccOf(stream) == AccFrom(stream, NewEvent)

\* C18: the accumulator is empty when a read loop starts, and at any time it
\* holds the fields read on this connection since the last dispatch, nothing
\* else; the event returned is that accumulator.
C18_EventFromOwnLines ==
    [][/\ (pc # "read" /\ pc' = "read") => event' = NewEvent
       /\ pc' = "read" => event' = AccOf(consumed')
       /\ (pc = "read" /\ pc' = "idle") => ret' = Some(Ok(AccOf(consumed)))]_vars

\* After an event with id 2 and a partial event cut off by the end of the
\* stream, an event without any field was returned from the next connection.
C18_Witness ==
    /\ pc = "idle"
    /\ yielded_id = Some(<<"2">>)
    /\ ret = Some(Ok(NewEvent))
    /\ conn_yield = <<NewEvent>>

\* C19: the steps of a failed connection attempt leave the connection absent
\* and last_event_id, retry, url and default_headers as they were; only the
\* wait step changes last_try.
C19_FailedAttemptFrame ==
    [][/\ (\/ (pc = "entry" /\ response = None)
           \/ pc = "request"
           \/ (pc = "sent" /\ pc' = "idle")) =>
            /\ response' = None
            /\ last_event_id' = last_event_id
            /\ retry' = retry
            /\ url' = url
            /\ default_headers' = default_headers
       /\ pc \in {"request", "sent"} => last_try' = last_try
       /\ (pc = "sent" /\ pc' = "idle") => (IsErr(ret') /\ open' = 0)]_vars

\* A connect failure after an id and a retry interval had been received.
C19_Witness ==
    /\ pc = "idle"
    /\ IsErr(ret)
    /\ response = None
    /\ last_event_id = Some(<<"1">>)
    /\ retry = 0

\* C20: a retry line sets the interval when it is read, and the wait of the
\* reconnect that follows a loss lasts for that interval, dispatch or not.
C20_RetryBeforeDispatch ==
    [][/\ (/\ pc = "read"
           /\ consumed' # consumed
           /\ parse_event_line(ReadLine(response[1]), event).verdict = "SetRetry") =>
            /\ retry' = parse_event_line(ReadLine(response[1]), event).retry
            /\ conn_yield' = conn_yield
       /\ pc = "lost" => (retry' = retry /\ pc' = "entry")
       /\ (pc = "entry" /\ depth >= 2) =>
            LET d == retry - (now - last_try[1])
            IN  IF d > 0
                THEN now' - now >= d /\ now' - now <= d + TickStep
                ELSE now' = now]_vars

\* The stream failed after "retry: 7500" and before any dispatch; the
\* reconnect request waited 7500 ms.
C20_Witness ==
    /\ pc = "request"
    /\ depth = 2
    /\ retry = 7500
    /\ conn_yield = << >>
    /\ prev_try # None
    /\ now - prev_try[1] = 7500

====
